---- MODULE Spec2Model ----
(***************************************************************************)
(* Well-log analysis backend: the LAS parser (utils/las_parser.py), the    *)
(* CurveData rows it feeds (models.py) and the routes that read them.      *)
(*                                                                         *)
(* Numbers are scaled integers: depths in thousandths of the file's depth  *)
(* unit, curve values in hundredths.  A cell of the data section is a      *)
(* record [k, v]: k = "num" (a float, v its scaled value), k = "nan" (the  *)
(* float NaN) or k = "str" (a token lasio could not convert to a float;    *)
(* lasio keeps such a column as strings).                                  *)
(***************************************************************************)
EXTENDS Integers, Sequences, FiniteSets, TLC

MaxRows == 2
MaxUploads == 1
MaxTempFiles == 1
MaxSeries == 7
MaxFiles == 2
MaxInterpretations == 1
MaxClock == 2

Num(n) == [k |-> "num", v |-> n]
NaN == [k |-> "nan", v |-> 0]
Str == [k |-> "str", v |-> 0]
None == [k |-> "none", v |-> 0]

Min2(a, b) == IF a <= b THEN a ELSE b

(***************************************************************************)
(* The files the parser is constructed on.                                 *)
(***************************************************************************)
NullValues == {-999}
DepthUnits == {"FT", "M", ""}
DepthCells(null) == {Num(381), Num(762), Num(null)}
ValueCells(null) == {Num(10), Num(20), Num(null)}
LithKinds == {"absent", "float", "str"}

DEPT == [mnemonic |-> "DEPT", unit |-> "", descr |-> "Depth"]
GR == [mnemonic |-> "GR", unit |-> "GAPI", descr |-> "Gamma Ray"]
LITH == [mnemonic |-> "LITH", unit |-> "", descr |-> ""]

\* the LITH cell of row r: a float column, or a column of text tokens
LithCell(kind, r) == IF kind = "str" THEN Str ELSE Num(30 + r)

FileRow(d, v, kind, r) ==
    IF kind = "absent" THEN <<d, v>> ELSE <<d, v, LithCell(kind, r)>>

FilesOf(null, n) ==
    { [ null |-> null,
        strt |-> Num(381),
        depth_unit |-> u,
        curves |-> IF kind = "absent" THEN <<DEPT, GR>> ELSE <<DEPT, GR, LITH>>,
        data |-> [r \in 1..n |-> FileRow(ds[r], vs[r], kind, r)] ] :
      u \in DepthUnits, kind \in LithKinds,
      ds \in [1..n -> DepthCells(null)], vs \in [1..n -> ValueCells(null)] }

Files == UNION { FilesOf(null, n) : null \in NullValues, n \in 0..MaxRows }

\* files whose data lines need not have one field per declared curve, whose
\* first curve need not be called DEPT, and whose STRT need not be a number
MD == [mnemonic |-> "MD", unit |-> "", descr |-> "Measured Depth"]

CurveSections == {<<DEPT, GR>>, <<MD, GR>>, <<GR, DEPT>>}

DataLines(null) ==
    { <<d, v>> : d \in {Num(381), Num(762)}, v \in {Num(10), Num(null)} }
        \cup {<<Num(381)>>, <<Num(762), Num(10), Num(20)>>}

\* every line has one field per curve, or the lines differ in length
LineLengths(lines) == { Len(lines[r]) : r \in 1..Len(lines) }

RawFilesOf(null, n) ==
    { [ null |-> null,
        strt |-> s,
        depth_unit |-> u,
        curves |-> cs,
        data |-> lines ] :
      s \in {Num(381), Str}, u \in DepthUnits, cs \in CurveSections,
      lines \in { ls \in [1..n -> DataLines(null)] :
                     LineLengths(ls) \subseteq {2} \/ Cardinality(LineLengths(ls)) > 1 } }

RawFiles == UNION { RawFilesOf(null, n) : null \in NullValues, n \in 0..MaxRows }

CurveArgs == {"GR", "LITH", "gr", "DEPT"}
DepthBounds == {None, Num(381), Num(762)}

(***************************************************************************)
(* lasio.read, as LASParser.__init__ calls it (default null_policy): every *)
(* float cell equal to the NULL value of the well section becomes NaN, and *)
(* each curve gets its column of the data section.  index_unit is "FT" or  *)
(* "M" when the depth unit is a known alias, and unknown otherwise.        *)
(*                                                                         *)
(* The repository does not pin lasio.  Releases before 0.30 replace the    *)
(* NULL value in the whole data array; from 0.30 on the index curve (the   *)
(* first column) is left as read ("Do not replace nulls in the index       *)
(* curve").  keep_index tells which of the two the installed lasio does.   *)
(***************************************************************************)
LasioBuilds == {FALSE, TRUE}

\* NullSubst under null_policy 'none': the cell is kept as read
NullSubstNone(cell, null) == cell

NullSubst(cell, null) ==
    IF cell.k = "num" /\ cell.v = null THEN NaN ELSE cell

IndexUnit(u) ==
    IF u \in {"FT", "F", "FEET", "FOOT"} THEN "FT"
    ELSE IF u \in {"M", "METER", "METERS", "METRE", "METRES"} THEN "M"
    ELSE "unknown"

LasioRead(f, keep_index) ==
    [ well |-> [NULL |-> f.null, STRT |-> f.strt, STRT_unit |-> f.depth_unit],
      index_unit |-> IndexUnit(f.depth_unit),
      curves |-> [c \in 1..Len(f.curves) |->
                    [ mnemonic |-> f.curves[c].mnemonic,
                      unit |-> f.curves[c].unit,
                      descr |-> f.curves[c].descr,
                      data |-> [r \in 1..Len(f.data) |->
                                  IF c = 1 /\ keep_index THEN f.data[r][c]
                                  ELSE NullSubst(f.data[r][c], f.null)] ]] ]

\* the data section as lasio's reader takes it: the fields of all lines in
\* one sequence, cut into rows of n fields (numpy reshape((-1, n)))
RECURSIVE Flatten(_)
Flatten(lines) == IF lines = <<>> THEN <<>> ELSE Head(lines) \o Flatten(Tail(lines))

Reshape(tokens, n) ==
    [r \in 1..(Len(tokens) \div n) |-> [c \in 1..n |-> tokens[(r - 1) * n + c]]]

\* LASParser.__init__: the document lasio.read returns, or the exception it
\* raises; the reshape fails when the fields do not fill whole rows
ReadError(exc) == [exc |-> exc]

Constructed(parser) == "curves" \in DOMAIN parser

LASParser(f, keep_index) ==
    LET n == Len(f.curves)
        tokens == Flatten(f.data)
    IN  IF Len(tokens) % n /= 0 THEN ReadError("ValueError")
        ELSE LasioRead([f EXCEPT !.data = Reshape(tokens, n)], keep_index)

\* las.index: the data of the first curve
Index(las) == las.curves[1].data

\* las.depth_ft: the index in feet; raises LASUnknownUnitError (which
\* hasattr does not swallow) when the index unit is unknown
ToFeet(cell) ==
    IF cell.k = "num" THEN Num((cell.v * 10000) \div 3048) ELSE cell

depth_ft(las) ==
    IF las.index_unit = "FT"
      THEN [ok |-> TRUE, col |-> Index(las)]
    ELSE IF las.index_unit = "M"
      THEN [ok |-> TRUE, col |-> [r \in 1..Len(Index(las)) |-> ToFeet(Index(las)[r])]]
    ELSE [ok |-> FALSE, col |-> <<>>]

\* las[curve_name]: the data of the first curve with exactly that mnemonic
HasCurve(las, name) == \E c \in 1..Len(las.curves) : las.curves[c].mnemonic = name

CurveColumn(las, name) ==
    LET c == CHOOSE c \in 1..Len(las.curves) :
                 /\ las.curves[c].mnemonic = name
                 /\ \A b \in 1..(c - 1) : las.curves[b].mnemonic /= name
    IN  las.curves[c].data

(***************************************************************************)
(* LASParser.get_curve_data                                                *)
(***************************************************************************)
isnan(cell) == cell.k = "nan"

Raise(cause) == [ok |-> FALSE, exc |-> "ValueError", cause |-> cause,
                 depths |-> <<>>, values |-> <<>>]

\* ZipLoop with the depths and the values filtered independently
RECURSIVE ZipLoopUnpaired(_, _, _, _, _)
ZipLoopUnpaired(depth_col, curve_data, i, depths, values) ==
    IF i > Min2(Len(depth_col), Len(curve_data))
      THEN [ok |-> TRUE, exc |-> "", cause |-> "", depths |-> depths, values |-> values]
    ELSE LET d == depth_col[i]
             v == curve_data[i]
         IN  IF v.k = "str" /\ ~isnan(d) THEN Raise("TypeError")
             ELSE ZipLoopUnpaired(depth_col, curve_data, i + 1,
                      IF isnan(d) THEN depths ELSE Append(depths, d.v),
                      IF isnan(v) \/ v.k = "str" THEN values ELSE Append(values, v.v))

\* ZipLoop with the test of the depth left out
RECURSIVE ZipLoopValueOnly(_, _, _, _, _)
ZipLoopValueOnly(depth_col, curve_data, i, depths, values) ==
    IF i > Min2(Len(depth_col), Len(curve_data))
      THEN [ok |-> TRUE, exc |-> "", cause |-> "", depths |-> depths, values |-> values]
    ELSE LET d == depth_col[i]
             v == curve_data[i]
         IN  IF v.k = "str" THEN Raise("TypeError")
             ELSE IF isnan(v)
               THEN ZipLoopValueOnly(depth_col, curve_data, i + 1, depths, values)
             ELSE ZipLoopValueOnly(depth_col, curve_data, i + 1,
                                   Append(depths, d.v), Append(values, v.v))

\* ZipLoop with each kept sample put in front of the earlier ones
RECURSIVE ZipLoopReversed(_, _, _, _, _)
ZipLoopReversed(depth_col, curve_data, i, depths, values) ==
    IF i > Min2(Len(depth_col), Len(curve_data))
      THEN [ok |-> TRUE, exc |-> "", cause |-> "", depths |-> depths, values |-> values]
    ELSE LET d == depth_col[i]
             v == curve_data[i]
         IN  IF isnan(d)
               THEN ZipLoopReversed(depth_col, curve_data, i + 1, depths, values)
             ELSE IF v.k = "str"
               THEN Raise("TypeError")
             ELSE IF isnan(v)
               THEN ZipLoopReversed(depth_col, curve_data, i + 1, depths, values)
             ELSE ZipLoopReversed(depth_col, curve_data, i + 1,
                                  <<d.v>> \o depths, <<v.v>> \o values)

\* the loop over zip(depth_col, curve_data), from position i on
RECURSIVE ZipLoop(_, _, _, _, _)
ZipLoop(depth_col, curve_data, i, depths, values) ==
    IF i > Min2(Len(depth_col), Len(curve_data))
      THEN [ok |-> TRUE, exc |-> "", cause |-> "", depths |-> depths, values |-> values]
    ELSE LET d == depth_col[i]
             v == curve_data[i]
         IN  IF isnan(d)
               THEN ZipLoop(depth_col, curve_data, i + 1, depths, values)
             ELSE IF v.k = "str"
               THEN Raise("TypeError")
             ELSE IF isnan(v)
               THEN ZipLoop(depth_col, curve_data, i + 1, depths, values)
             ELSE ZipLoop(depth_col, curve_data, i + 1,
                          Append(depths, d.v), Append(values, v.v))

\* get_curve_data answering an unknown mnemonic with an empty series
get_curve_data_lenient(las, curve_name) ==
    LET depth_col == depth_ft(las)
    IN  IF ~depth_col.ok THEN Raise("LASUnknownUnitError")
        ELSE IF ~HasCurve(las, curve_name)
          THEN [ok |-> TRUE, exc |-> "", cause |-> "", depths |-> <<>>, values |-> <<>>]
        ELSE ZipLoop(depth_col.col, CurveColumn(las, curve_name), 1, <<>>, <<>>)

get_curve_data(las, curve_name) ==
    LET depth_col == depth_ft(las)
    IN  IF ~depth_col.ok THEN Raise("LASUnknownUnitError")
        ELSE IF ~HasCurve(las, curve_name) THEN Raise("KeyError")
        ELSE ZipLoop(depth_col.col, CurveColumn(las, curve_name), 1, <<>>, <<>>)

(***************************************************************************)
(* LASParser.get_available_curves, get_curve_names, get_all_curves_data    *)
(***************************************************************************)
Upper(s) == IF s = "gr" THEN "GR" ELSE IF s = "dept" THEN "DEPT"
            ELSE IF s = "depth" THEN "DEPTH" ELSE IF s = "lith" THEN "LITH" ELSE s

IsDepthMnemonic(m) == Upper(m) = "DEPT" \/ Upper(m) = "DEPTH"

RECURSIVE AvailableFrom(_, _)
AvailableFrom(curves, c) ==
    IF c > Len(curves) THEN <<>>
    ELSE IF ~IsDepthMnemonic(curves[c].mnemonic)
      THEN <<[name |-> curves[c].mnemonic, unit |-> curves[c].unit,
              description |-> curves[c].descr]>> \o AvailableFrom(curves, c + 1)
    ELSE AvailableFrom(curves, c + 1)

get_available_curves(las) == AvailableFrom(las.curves, 1)

get_curve_names(las) ==
    [i \in 1..Len(get_available_curves(las)) |-> get_available_curves(las)[i].name]

EmptyMap == [n \in {} |-> 0]

\* AllCurvesLoop without the try/except: the first failure ends the batch
RECURSIVE AllCurvesLoopAborting(_, _, _, _, _)
AllCurvesLoopAborting(las, names, i, data, warnings) ==
    IF i > Len(names) THEN [data |-> data, warnings |-> warnings]
    ELSE LET r == get_curve_data(las, names[i])
         IN  IF r.ok
               THEN AllCurvesLoopAborting(las, names, i + 1,
                        [n \in DOMAIN data \cup {names[i]} |->
                            IF n = names[i] THEN [depths |-> r.depths, values |-> r.values]
                            ELSE data[n]],
                        warnings)
             ELSE [data |-> EmptyMap, warnings |-> <<>>]

\* the loop of get_all_curves_data over the curve names from position i on:
\* data maps the extracted names to their series, warnings are the names
\* printed in a "Warning: Could not extract curve" line
RECURSIVE AllCurvesLoop(_, _, _, _, _)
AllCurvesLoop(las, names, i, data, warnings) ==
    IF i > Len(names) THEN [data |-> data, warnings |-> warnings]
    ELSE LET r == get_curve_data(las, names[i])
         IN  IF r.ok
               THEN AllCurvesLoop(las, names, i + 1,
                        [n \in DOMAIN data \cup {names[i]} |->
                            IF n = names[i] THEN [depths |-> r.depths, values |-> r.values]
                            ELSE data[n]],
                        warnings)
             ELSE AllCurvesLoop(las, names, i + 1, data, Append(warnings, names[i]))

get_all_curves_data(las) == AllCurvesLoop(las, get_curve_names(las), 1, EmptyMap, <<>>)

(***************************************************************************)
(* LASParser.get_statistics.  A statistic is a fraction num/den of scaled  *)
(* integers, or None.  std is carried as its radicand: the fraction under  *)
(* the square root that np.std takes.                                      *)
(***************************************************************************)
Float(n, d) == [k |-> "float", num |-> n, den |-> d]
NoneFloat == [k |-> "none", num |-> 0, den |-> 0]

RECURSIVE np_sum(_)
np_sum(xs) == IF xs = <<>> THEN 0 ELSE Head(xs) + np_sum(Tail(xs))

RECURSIVE np_min(_)
np_min(xs) ==
    IF Len(xs) = 1 THEN xs[1]
    ELSE LET m == np_min(Tail(xs)) IN IF xs[1] <= m THEN xs[1] ELSE m

RECURSIVE np_max(_)
np_max(xs) ==
    IF Len(xs) = 1 THEN xs[1]
    ELSE LET m == np_max(Tail(xs)) IN IF xs[1] >= m THEN xs[1] ELSE m

\* np.mean: the sum divided by the number of values
np_mean(xs) == Float(np_sum(xs), Len(xs))

\* np_std with ddof = 1: the sample standard deviation
np_std_sample(xs) ==
    LET N == Len(xs)
        S == np_sum(xs)
        sq == [i \in 1..N |-> (N * xs[i] - S) * (N * xs[i] - S)]
    IN  Float(np_sum(sq), N * N * (N - 1))

\* np.std (ddof = 0): sqrt(mean(abs(x - x.mean()) ** 2)); with mean S/N the
\* deviation of x is (N*x - S)/N, so the radicand is sum((N*x - S)^2) / (N^2 * N)
np_std(xs) ==
    LET N == Len(xs)
        S == np_sum(xs)
        sq == [i \in 1..N |-> (N * xs[i] - S) * (N * xs[i] - S)]
    IN  Float(np_sum(sq), N * N * N)

NoStats == [min |-> NoneFloat, max |-> NoneFloat, mean |-> NoneFloat, std |-> NoneFloat]

\* get_statistics without the test for an empty list: np.min of an empty
\* array raises ValueError
get_statistics_unguarded(las, curve_name) ==
    LET r == get_curve_data(las, curve_name)
    IN  IF ~r.ok THEN [ok |-> FALSE, exc |-> r.exc, cause |-> r.cause, stats |-> NoStats]
        ELSE IF r.values = <<>>
          THEN [ok |-> FALSE, exc |-> "ValueError", cause |-> "zero-size array",
                stats |-> NoStats]
        ELSE [ok |-> TRUE, exc |-> "", cause |-> "",
              stats |-> [ min |-> Float(np_min(r.values), 1),
                          max |-> Float(np_max(r.values), 1),
                          mean |-> np_mean(r.values),
                          std |-> np_std(r.values) ]]

get_statistics(las, curve_name) ==
    LET r == get_curve_data(las, curve_name)
    IN  IF ~r.ok THEN [ok |-> FALSE, exc |-> r.exc, cause |-> r.cause, stats |-> NoStats]
        ELSE IF r.values = <<>>
          THEN [ok |-> TRUE, exc |-> "", cause |-> "", stats |-> NoStats]
        ELSE [ok |-> TRUE, exc |-> "", cause |-> "",
              stats |-> [ min |-> Float(np_min(r.values), 1),
                          max |-> Float(np_max(r.values), 1),
                          mean |-> np_mean(r.values),
                          std |-> np_std(r.values) ]]

(***************************************************************************)
(* LASParser.get_metadata: start_depth is float(STRT.value), which raises  *)
(* ValueError on a value that is not a number; depth_unit is the unit of   *)
(* STRT, or 'M' when the unit is empty.                                    *)
(***************************************************************************)
get_metadata(las) ==
    IF las.well.STRT.k = "str"
      THEN [ok |-> FALSE, exc |-> "ValueError", start_depth |-> None, depth_unit |-> ""]
    ELSE [ ok |-> TRUE, exc |-> "",
           start_depth |-> las.well.STRT,
           depth_unit |-> IF las.well.STRT_unit = "" THEN "M" ELSE las.well.STRT_unit ]

(***************************************************************************)
(* json.dumps / json.loads of a list of floats, as the CurveData columns   *)
(* depths and values hold it: a text of one-character tokens.              *)
(***************************************************************************)
DigitChars == <<"0", "1", "2", "3", "4", "5", "6", "7", "8", "9">>

RECURSIVE NatRepr(_)
NatRepr(n) ==
    IF n < 10 THEN <<DigitChars[n + 1]>>
    ELSE NatRepr(n \div 10) \o <<DigitChars[(n % 10) + 1]>>

FloatRepr(x) == IF x < 0 THEN <<"-">> \o NatRepr(0 - x) ELSE NatRepr(x)

RECURSIVE JoinFrom(_, _)
JoinFrom(xs, i) ==
    IF i > Len(xs) THEN <<>>
    ELSE (IF i > 1 THEN <<",">> ELSE <<>>) \o FloatRepr(xs[i]) \o JoinFrom(xs, i + 1)

json_dumps(xs) == <<"[">> \o JoinFrom(xs, 1) \o <<"]">>

DigitOf(ch) == (CHOOSE i \in 1..10 : DigitChars[i] = ch) - 1

\* the scanner of json.loads from position i on: acc is the list read so
\* far, sign and val the number being read, open whether one is being read
RECURSIVE LoadsFrom(_, _, _, _, _, _)
LoadsFrom(text, i, acc, sign, val, open) ==
    IF i > Len(text) THEN acc
    ELSE LET ch == text[i]
         IN  IF ch = "[" THEN LoadsFrom(text, i + 1, acc, 1, 0, FALSE)
             ELSE IF ch = "-" THEN LoadsFrom(text, i + 1, acc, 0 - 1, 0, TRUE)
             ELSE IF ch = "," \/ ch = "]"
               THEN LoadsFrom(text, i + 1,
                              IF open THEN Append(acc, sign * val) ELSE acc,
                              1, 0, FALSE)
             ELSE LoadsFrom(text, i + 1, acc, sign, 10 * val + DigitOf(ch), TRUE)

json_loads(text) == LoadsFrom(text, 1, <<>>, 1, 0, FALSE)

(***************************************************************************)
(* CurveData.get_data                                                      *)
(***************************************************************************)
\* FilterLoop with the bounds exclusive
RECURSIVE FilterLoopStrict(_, _, _, _, _, _, _)
FilterLoopStrict(depths, values, start_depth, end_depth, i, fd, fv) ==
    IF i > Min2(Len(depths), Len(values)) THEN [depths |-> fd, values |-> fv]
    ELSE IF /\ (start_depth = None \/ depths[i] > start_depth.v)
            /\ (end_depth = None \/ depths[i] < end_depth.v)
      THEN FilterLoopStrict(depths, values, start_depth, end_depth, i + 1,
                            Append(fd, depths[i]), Append(fv, values[i]))
    ELSE FilterLoopStrict(depths, values, start_depth, end_depth, i + 1, fd, fv)

\* the loop over zip(depths, values), from position i on
RECURSIVE FilterLoop(_, _, _, _, _, _, _)
FilterLoop(depths, values, start_depth, end_depth, i, fd, fv) ==
    IF i > Min2(Len(depths), Len(values)) THEN [depths |-> fd, values |-> fv]
    ELSE IF /\ (start_depth = None \/ depths[i] >= start_depth.v)
            /\ (end_depth = None \/ depths[i] <= end_depth.v)
      THEN FilterLoop(depths, values, start_depth, end_depth, i + 1,
                      Append(fd, depths[i]), Append(fv, values[i]))
    ELSE FilterLoop(depths, values, start_depth, end_depth, i + 1, fd, fv)

get_data(row, start_depth, end_depth) ==
    LET depths == json_loads(row.depths)
        values == json_loads(row.values)
    IN  IF start_depth = None /\ end_depth = None
          THEN [depths |-> depths, values |-> values]
        ELSE FilterLoop(depths, values, start_depth, end_depth, 1, <<>>, <<>>)

(***************************************************************************)
(* interpret: what it hands to the AI service for one curve               *)
(***************************************************************************)
\* f"{x:.2f}" of a depth in thousandths: the nearest hundredth (the numbers
\* of the model never lie halfway between two hundredths)
Fmt2(x) == IF x >= 0 THEN (x + 5) \div 10 ELSE 0 - ((5 - x) \div 10)

\* CurveSummary with the first sample_count samples instead of evenly
\* spaced ones
CurveSummaryFirst(curve, start_depth, end_depth) ==
    LET series == get_data(curve, start_depth, end_depth)
        depths == series.depths
        values == series.values
        sample_count == Min2(5, Len(values))
        sample_indices == [i \in 1..sample_count |-> i - 1]
        in_range == SelectSeq(sample_indices, LAMBDA i : i < Len(values))
    IN  [ unit |-> curve.curve_unit,
          min_value |-> IF values /= <<>> THEN Float(np_min(values), 1) ELSE NoneFloat,
          max_value |-> IF values /= <<>> THEN Float(np_max(values), 1) ELSE NoneFloat,
          mean_value |-> IF values /= <<>> THEN Float(np_sum(values), Len(values))
                         ELSE NoneFloat,
          sample_values |-> [k \in 1..Len(in_range) |->
                                [ depth |-> Fmt2(depths[in_range[k] + 1]),
                                  value |-> values[in_range[k] + 1] ]] ]

\* the body of "for curve_name in curve_names" for a curve that was found:
\* sample_indices are 0-based, int(i * len(values) / sample_count)
CurveSummary(curve, start_depth, end_depth) ==
    LET series == get_data(curve, start_depth, end_depth)
        depths == series.depths
        values == series.values
        sample_count == Min2(5, Len(values))
        sample_indices == [i \in 1..sample_count |->
                              ((i - 1) * Len(values)) \div sample_count]
        in_range == SelectSeq(sample_indices, LAMBDA i : i < Len(values))
    IN  [ unit |-> curve.curve_unit,
          min_value |-> IF values /= <<>> THEN Float(np_min(values), 1) ELSE NoneFloat,
          max_value |-> IF values /= <<>> THEN Float(np_max(values), 1) ELSE NoneFloat,
          mean_value |-> IF values /= <<>> THEN Float(np_sum(values), Len(values))
                         ELSE NoneFloat,
          sample_values |-> [k \in 1..Len(in_range) |->
                                [ depth |-> Fmt2(depths[in_range[k] + 1]),
                                  value |-> values[in_range[k] + 1] ]] ]

(***************************************************************************)
(* AIService.  The environment gives GEMINI_API_KEY (None when unset, else *)
(* a text) and tells whether genai.configure and GenerativeModel succeed.  *)
(* A call returns a text or raises; model_calls counts the calls of        *)
(* self.model.generate_content it made.                                    *)
(***************************************************************************)
Text(t) == [k |-> "str", v |-> t]

ApiKeys == {None, Text(""), Text("  "), Text("key")}

strip(text) == IF text.v = "  " THEN Text("") ELSE text

\* AIService.__init__: self.model exists only when the client was configured
AIService(env) ==
    LET api_key == env.GEMINI_API_KEY
    IN  IF api_key.k = "none" \/ api_key.v = "" \/ strip(api_key).v = ""
          THEN [enabled |-> FALSE, has_model |-> FALSE]
        ELSE IF env.genai_ok THEN [enabled |-> TRUE, has_model |-> TRUE]
        ELSE [enabled |-> FALSE, has_model |-> FALSE]

Returned(text, calls) == [raised |-> FALSE, exc |-> "", text |-> text, model_calls |-> calls]

Raised(exc, calls) == [raised |-> TRUE, exc |-> exc, text |-> "", model_calls |-> calls]

EmptyDict == [k |-> "dict", well_name |-> "", depth_unit |-> ""]

\* _prepare_interpretation_context: the unit the depth range is given in, or
\* AttributeError when well_metadata is None (None has no get)
prepare_interpretation_context(curves_data, start_depth, end_depth, well_metadata) ==
    IF well_metadata.k = "none"
      THEN [ok |-> FALSE, exc |-> "AttributeError", unit |-> ""]
    ELSE [ ok |-> TRUE, exc |-> "",
           unit |-> IF well_metadata = EmptyDict THEN "M" ELSE well_metadata.depth_unit ]

\* self.model.generate_content(prompt): response.text, or the text the
\* except clause builds from the exception
generate_content(self, generated, error_text) ==
    IF ~self.has_model THEN Raised("AttributeError", 0)
    ELSE IF generated THEN Returned("response.text", 1)
    ELSE Returned(error_text, 1)

interpret_curves(self, curves_data, start_depth, end_depth, well_metadata, generated) ==
    IF ~self.enabled THEN Returned("AI Interpretation Service is currently unavailable.", 0)
    ELSE LET context == prepare_interpretation_context(curves_data, start_depth,
                                                       end_depth, well_metadata)
         IN  IF ~context.ok THEN Raised(context.exc, 0)
             ELSE generate_content(self, generated, "Error generating interpretation")

chat_about_data(self, user_message, well_data, conversation_history, generated) ==
    IF ~self.enabled THEN Returned("Chatbot service is currently unavailable.", 0)
    ELSE generate_content(self, generated, "Error in chat")

(***************************************************************************)
(* upload_file: the rows it stores for a parsed file                       *)
(***************************************************************************)
\* StoreCurvesLoop with the statistics of the first listed curve computed
\* once and stored with every row
RECURSIVE StoreCurvesLoopStaleStats(_, _, _, _, _, _)
StoreCurvesLoopStaleStats(parser, available_curves, curves_data, file_id, i, rows) ==
    IF i > Len(available_curves) THEN rows
    ELSE LET curve_name == available_curves[i].name
         IN  IF curve_name \in DOMAIN curves_data
               THEN LET stats == get_statistics(parser, available_curves[1].name).stats
                    IN  StoreCurvesLoopStaleStats(parser, available_curves, curves_data,
                            file_id, i + 1,
                            Append(rows,
                                [ file_id |-> file_id,
                                  curve_name |-> curve_name,
                                  curve_unit |-> available_curves[i].unit,
                                  curve_description |-> available_curves[i].description,
                                  depths |-> json_dumps(curves_data[curve_name].depths),
                                  values |-> json_dumps(curves_data[curve_name].values),
                                  min_value |-> stats.min,
                                  max_value |-> stats.max,
                                  mean_value |-> stats.mean ]))
             ELSE StoreCurvesLoopStaleStats(parser, available_curves, curves_data,
                                            file_id, i + 1, rows)

\* the loop "for curve_info in available_curves" from position i on
RECURSIVE StoreCurvesLoop(_, _, _, _, _, _)
StoreCurvesLoop(parser, available_curves, curves_data, file_id, i, rows) ==
    IF i > Len(available_curves) THEN rows
    ELSE LET curve_name == available_curves[i].name
         IN  IF curve_name \in DOMAIN curves_data
               THEN LET stats == get_statistics(parser, curve_name).stats
                    IN  StoreCurvesLoop(parser, available_curves, curves_data, file_id, i + 1,
                            Append(rows,
                                [ file_id |-> file_id,
                                  curve_name |-> curve_name,
                                  curve_unit |-> available_curves[i].unit,
                                  curve_description |-> available_curves[i].description,
                                  depths |-> json_dumps(curves_data[curve_name].depths),
                                  values |-> json_dumps(curves_data[curve_name].values),
                                  min_value |-> stats.min,
                                  max_value |-> stats.max,
                                  mean_value |-> stats.mean ]))
             ELSE StoreCurvesLoop(parser, available_curves, curves_data, file_id, i + 1, rows)

(***************************************************************************)
(* State: the uploaded file and the parser constructed on it, a second     *)
(* parser on a file of its own, the tables well_log_files and curve_data,  *)
(* the copies in the uploads folder, and the last call with what it        *)
(* returned.                                                               *)
(***************************************************************************)
VARIABLES file, las, well_log_files, curve_data, result, storage, file2, las2,
          ai_interpretations, now, temp_files, service, environ

vars == <<file, las, well_log_files, curve_data, result, storage, file2, las2,
          ai_interpretations, now, temp_files, service, environ>>

\* what the requests of the application add to the state of the parser: the
\* table ai_interpretations, the clock (in half seconds), the number of
\* temporary files on disk, the AIService of the process and the environment
\* it was constructed in
appvars == <<ai_interpretations, now, temp_files, service, environ>>

\* the parser and the routes are synchronous: a call starts when no call is
\* under way, and its caller takes what it returned before the next call
NoCall == [op |-> "none"]

Idle == result = NoCall

NoFile == [name |-> "none"]

NoParser == [exc |-> "none"]

NoService == [enabled |-> FALSE, has_model |-> FALSE]

NoEnviron == [GEMINI_API_KEY |-> None, genai_ok |-> FALSE]

Init ==
    /\ file \in Files
    /\ las \in {LASParser(file, b) : b \in LasioBuilds}
    /\ well_log_files = <<>>
    /\ curve_data = <<>>
    /\ storage = {}
    /\ file2 = NoFile
    /\ las2 = NoParser
    /\ ai_interpretations = <<>>
    /\ now = 0
    /\ temp_files = 0
    /\ service = NoService
    /\ environ = NoEnviron
    /\ result = NoCall

GetMetadata ==
    /\ Idle
    /\ Constructed(las)
    /\ result' = [op |-> "get_metadata", out |-> get_metadata(las)]
    /\ UNCHANGED <<file, las, well_log_files, curve_data, storage, file2, las2, appvars>>

GetAvailableCurves ==
    /\ Idle
    /\ Constructed(las)
    /\ result' = [op |-> "get_available_curves", out |-> get_available_curves(las)]
    /\ UNCHANGED <<file, las, well_log_files, curve_data, storage, file2, las2, appvars>>

\* GetCurveData with the conversion to feet written into the document
\* (self.las.index /= 0.3048) instead of computed from it
GetCurveDataInPlace(curve_name) ==
    /\ Idle
    /\ Constructed(las)
    /\ result' = [op |-> "get_curve_data", arg |-> curve_name,
                  out |-> get_curve_data(las, curve_name)]
    /\ las' = IF depth_ft(las).ok
                THEN [las EXCEPT !.curves[1].data = depth_ft(las).col]
              ELSE las
    /\ UNCHANGED <<file, well_log_files, curve_data, storage, file2, las2, appvars>>

GetCurveData(curve_name) ==
    /\ Idle
    /\ Constructed(las)
    /\ result' = [op |-> "get_curve_data", arg |-> curve_name,
                  out |-> get_curve_data(las, curve_name)]
    /\ UNCHANGED <<file, las, well_log_files, curve_data, storage, file2, las2, appvars>>

GetAllCurvesData ==
    /\ Idle
    /\ Constructed(las)
    /\ result' = [op |-> "get_all_curves_data", out |-> get_all_curves_data(las)]
    /\ UNCHANGED <<file, las, well_log_files, curve_data, storage, file2, las2, appvars>>

GetStatistics(curve_name) ==
    /\ Idle
    /\ Constructed(las)
    /\ result' = [op |-> "get_statistics", arg |-> curve_name,
                  out |-> get_statistics(las, curve_name)]
    /\ UNCHANGED <<file, las, well_log_files, curve_data, storage, file2, las2, appvars>>

\* what the calls of upload_file to the file system, the uploads folder
\* and the database do: io.save is FALSE when file.save raises, io.store is
\* "fail" when LocalStorageService.upload_file returns success False and
\* "raise" when the storage service raises, io.db is FALSE when the flush or
\* the commit raises
NoFault == [save |-> TRUE, store |-> "ok", db |-> TRUE]

Faults == [save : BOOLEAN, store : {"ok", "fail", "raise"}, db : BOOLEAN]

Filenames == {"a.las", "b.las"}

\* datetime.now().strftime('%Y%m%d_%H%M%S'): the second the clock is in
Timestamp(t) == t \div 2

\* f"las-files/{timestamp}_{object_name}"
StorageKey(t, object_name) == [timestamp |-> Timestamp(t), object_name |-> object_name]

\* shutil.copy2 to the path of the key: a file already there is overwritten
Copy2(store, key) == store \cup {key}

\* the primary key the database gives a new WellLogFile row
RECURSIVE MaxId(_)
MaxId(rows) ==
    IF rows = <<>> THEN 0
    ELSE LET m == MaxId(Tail(rows)) IN IF Head(rows).id >= m THEN Head(rows).id ELSE m

\* UploadFile with the copy to the uploads folder made before the file is
\* parsed
UploadFileStoreFirst(filename, io) ==
    /\ Idle
    /\ io.save \/ temp_files < MaxTempFiles
    /\ LET parser == las
           parsed == Constructed(parser) /\ get_metadata(parser).ok
           storage_key == StorageKey(now, filename)
           id == MaxId(well_log_files) + 1
       IN  IF ~io.save
             THEN /\ temp_files' = temp_files + 1
                  /\ result' = [op |-> "upload", out |-> 500, unlinks |-> 0]
                  /\ UNCHANGED <<well_log_files, curve_data, storage>>
           ELSE IF io.store /= "ok"
             THEN /\ result' = [op |-> "upload", out |-> 500, unlinks |-> 1]
                  /\ UNCHANGED <<well_log_files, curve_data, storage, temp_files>>
           ELSE IF ~parsed
             THEN /\ storage' = Copy2(storage, storage_key)
                  /\ result' = [op |-> "upload", out |-> 400, unlinks |-> 1]
                  /\ UNCHANGED <<well_log_files, curve_data, temp_files>>
           ELSE IF ~io.db
             THEN /\ storage' = Copy2(storage, storage_key)
                  /\ result' = [op |-> "upload", out |-> 500, unlinks |-> 1]
                  /\ UNCHANGED <<well_log_files, curve_data, temp_files>>
           ELSE LET metadata == get_metadata(parser)
                    available_curves == get_available_curves(parser)
                    curves_data == get_all_curves_data(parser).data
                IN  /\ storage' = Copy2(storage, storage_key)
                    /\ well_log_files' = Append(well_log_files,
                           [ id |-> id,
                             filename |-> filename,
                             s3_key |-> storage_key,
                             depth_unit |-> metadata.depth_unit,
                             available_curves |->
                                 [i \in 1..Len(available_curves) |->
                                     available_curves[i].name] ])
                    /\ curve_data' = StoreCurvesLoop(parser, available_curves, curves_data,
                                                     id, 1, curve_data)
                    /\ result' = [op |-> "upload", out |-> 201, unlinks |-> 1]
                    /\ UNCHANGED temp_files
    /\ UNCHANGED <<file, las, file2, las2, ai_interpretations, now, service, environ>>

\* POST /upload of the file under a name.  NamedTemporaryFile creates the
\* temporary file and file.save fills it; when file.save raises the request
\* ends with 500 in the outer handler, which unlinks nothing.
\* LASParser(temp_path) reads what the installed lasio reads from the file:
\* las.  An exception of the constructor or of get_metadata unlinks the
\* temporary file and ends the request with 400.  Then the file is copied to
\* the uploads folder (a failure unlinks the temporary file and ends the
\* request with 500), the temporary file is unlinked, and the rows are added
\* and committed; an exception of the database is answered by a rollback and
\* 500.
UploadFile(filename, io) ==
    /\ Idle
    /\ io.save \/ temp_files < MaxTempFiles
    /\ LET parser == las
           parsed == Constructed(parser) /\ get_metadata(parser).ok
           storage_key == StorageKey(now, filename)
           id == MaxId(well_log_files) + 1
       IN  IF ~io.save
             THEN /\ temp_files' = temp_files + 1
                  /\ result' = [op |-> "upload", out |-> 500, unlinks |-> 0]
                  /\ UNCHANGED <<well_log_files, curve_data, storage>>
           ELSE IF ~parsed
             THEN /\ result' = [op |-> "upload", out |-> 400, unlinks |-> 1]
                  /\ UNCHANGED <<well_log_files, curve_data, storage, temp_files>>
           ELSE IF io.store /= "ok"
             THEN /\ result' = [op |-> "upload", out |-> 500, unlinks |-> 1]
                  /\ UNCHANGED <<well_log_files, curve_data, storage, temp_files>>
           ELSE IF ~io.db
             THEN /\ storage' = Copy2(storage, storage_key)
                  /\ result' = [op |-> "upload", out |-> 500, unlinks |-> 1]
                  /\ UNCHANGED <<well_log_files, curve_data, temp_files>>
           ELSE LET metadata == get_metadata(parser)
                    available_curves == get_available_curves(parser)
                    curves_data == get_all_curves_data(parser).data
                IN  /\ storage' = Copy2(storage, storage_key)
                    /\ well_log_files' = Append(well_log_files,
                           [ id |-> id,
                             filename |-> filename,
                             s3_key |-> storage_key,
                             depth_unit |-> metadata.depth_unit,
                             available_curves |->
                                 [i \in 1..Len(available_curves) |->
                                     available_curves[i].name] ])
                    /\ curve_data' = StoreCurvesLoop(parser, available_curves, curves_data,
                                                     id, 1, curve_data)
                    /\ result' = [op |-> "upload", out |-> 201, unlinks |-> 1]
                    /\ UNCHANGED temp_files
    /\ UNCHANGED <<file, las, file2, las2, ai_interpretations, now, service, environ>>

\* curve.get_data(start_depth, end_depth), as /visualize calls it on a row
GetData(i, start_depth, end_depth) ==
    /\ Idle
    /\ i \in 1..Len(curve_data)
    /\ result' = [op |-> "get_data",
                  arg |-> [row |-> i, start_depth |-> start_depth, end_depth |-> end_depth],
                  out |-> get_data(curve_data[i], start_depth, end_depth)]
    /\ UNCHANGED <<file, las, well_log_files, curve_data, storage, file2, las2, appvars>>

Return ==
    /\ ~Idle
    /\ result' = NoCall
    /\ UNCHANGED <<file, las, well_log_files, curve_data, storage, file2, las2, appvars>>

Next ==
    \/ \E n \in CurveArgs : GetCurveData(n)
    \/ GetAllCurvesData
    \/ \E n \in CurveArgs : GetStatistics(n)
    \/ (Len(well_log_files) < MaxUploads /\ UploadFile("a.las", NoFault))
    \/ \E i \in 1..Len(curve_data), s \in DepthBounds, e \in DepthBounds : GetData(i, s, e)
    \/ Return

Spec == Init /\ [][Next]_vars

(***************************************************************************)
(* The same calls on the files of RawFiles.                                *)
(***************************************************************************)
InitRead ==
    /\ file \in RawFiles
    /\ las \in {LASParser(file, b) : b \in LasioBuilds}
    /\ well_log_files = <<>>
    /\ curve_data = <<>>
    /\ storage = {}
    /\ file2 = NoFile
    /\ las2 = NoParser
    /\ ai_interpretations = <<>>
    /\ now = 0
    /\ temp_files = 0
    /\ service = NoService
    /\ environ = NoEnviron
    /\ result = NoCall

NextRead ==
    \/ GetMetadata
    \/ GetAvailableCurves
    \/ Next

SpecRead == InitRead /\ [][NextRead]_vars

(***************************************************************************)
(* Two parsers in one process, each constructed on a file of its own by    *)
(* the same installed lasio, with their calls interleaved.                 *)
(***************************************************************************)
PairFiles ==
    UNION { { f \in FilesOf(null, MaxRows - 1) : Len(f.curves) = 2 /\ f.depth_unit /= "" } :
            null \in NullValues }

InitTwo ==
    /\ file \in PairFiles
    /\ las \in {LASParser(file, b) : b \in LasioBuilds}
    /\ well_log_files = <<>>
    /\ curve_data = <<>>
    /\ storage = {}
    /\ file2 = NoFile
    /\ las2 = NoParser
    /\ ai_interpretations = <<>>
    /\ now = 0
    /\ temp_files = 0
    /\ service = NoService
    /\ environ = NoEnviron
    /\ result = NoCall

\* NewParser2 with the document kept in an attribute of the class, which
\* all instances share
NewParser2Shared(f) ==
    /\ Idle
    /\ las2 = NoParser
    /\ file2' = f
    /\ \E b \in LasioBuilds :
         /\ las = LASParser(file, b)
         /\ las2' = LASParser(f, b)
         /\ las' = LASParser(f, b)
    /\ UNCHANGED <<file, well_log_files, curve_data, storage, result, appvars>>

\* LASParser(file_path) for the second file: self.las of the new instance
NewParser2(f) ==
    /\ Idle
    /\ las2 = NoParser
    /\ file2' = f
    /\ \E b \in LasioBuilds :
         /\ las = LASParser(file, b)
         /\ las2' = LASParser(f, b)
         /\ las' = las
    /\ UNCHANGED <<file, well_log_files, curve_data, storage, result, appvars>>

GetCurveData2(curve_name) ==
    /\ Idle
    /\ Constructed(las2)
    /\ result' = [op |-> "get_curve_data", parser |-> 2, arg |-> curve_name,
                  out |-> get_curve_data(las2, curve_name)]
    /\ UNCHANGED <<file, las, well_log_files, curve_data, storage, file2, las2, appvars>>

GetAllCurvesData2 ==
    /\ Idle
    /\ Constructed(las2)
    /\ result' = [op |-> "get_all_curves_data", parser |-> 2,
                  out |-> get_all_curves_data(las2)]
    /\ UNCHANGED <<file, las, well_log_files, curve_data, storage, file2, las2, appvars>>

NextTwo ==
    \/ \E f \in PairFiles : NewParser2(f)
    \/ \E n \in CurveArgs : GetCurveData(n)
    \/ GetAllCurvesData
    \/ \E n \in CurveArgs : GetCurveData2(n)
    \/ GetAllCurvesData2
    \/ Return

SpecTwo == InitTwo /\ [][NextTwo]_vars

(***************************************************************************)
(* The summary of one stored curve, on rows of up to MaxSeries samples.    *)
(***************************************************************************)
SampleRowsOf(n) ==
    { [ file_id |-> 1,
        curve_name |-> "GR",
        curve_unit |-> "GAPI",
        curve_description |-> "Gamma Ray",
        depths |-> json_dumps([i \in 1..n |-> 100 * i + 1]),
        values |-> json_dumps(vs),
        min_value |-> NoneFloat,
        max_value |-> NoneFloat,
        mean_value |-> NoneFloat ] :
      vs \in [1..n -> {10, 20}] }

SampleRows == UNION { SampleRowsOf(n) : n \in 0..MaxSeries }

SampleBounds == {Num(0), Num(350), Num(9000)}

InitSample ==
    /\ file = NoFile
    /\ las = NoParser
    /\ well_log_files = <<>>
    /\ curve_data \in { <<row>> : row \in SampleRows }
    /\ storage = {}
    /\ file2 = NoFile
    /\ las2 = NoParser
    /\ ai_interpretations = <<>>
    /\ now = 0
    /\ temp_files = 0
    /\ service = NoService
    /\ environ = NoEnviron
    /\ result = NoCall

SummariseCurve(j, start_depth, end_depth) ==
    /\ Idle
    /\ j \in 1..Len(curve_data)
    /\ result' = [op |-> "curve_summary",
                  arg |-> [row |-> j, start_depth |-> start_depth, end_depth |-> end_depth],
                  out |-> CurveSummary(curve_data[j], start_depth, end_depth)]
    /\ UNCHANGED <<file, las, well_log_files, curve_data, storage, file2, las2, appvars>>

NextSample ==
    \/ \E j \in 1..Len(curve_data), s \in SampleBounds, e \in SampleBounds :
           SummariseCurve(j, s, e)
    \/ Return

SpecSample == InitSample /\ [][NextSample]_vars

(***************************************************************************)
(* The calls of an AIService constructed in each environment.              *)
(***************************************************************************)
Environs == [GEMINI_API_KEY : ApiKeys, genai_ok : BOOLEAN]

\* the arguments of the calls: the summaries of the requested curves, the
\* metadata of the well (optional), the data of the well and the history of
\* the conversation (optional)
CurvesDataArgs ==
    { EmptyMap,
      [n \in {"GR"} |-> [unit |-> "GAPI", min_value |-> Float(10, 1),
                         max_value |-> Float(20, 1), mean_value |-> Float(30, 2),
                         sample_values |-> <<[depth |-> 38, value |-> 10]>>]] }

MetadataArgs == {None, EmptyDict, [k |-> "dict", well_name |-> "W-1", depth_unit |-> "FT"]}

WellDataArgs ==
    { [k |-> "dict", well_name |-> "W-1", depth_unit |-> "FT", available_curves |-> <<"GR">>],
      [k |-> "dict", well_name |-> "", depth_unit |-> "M", available_curves |-> <<>>] }

HistoryArgs == {None, [k |-> "list", v |-> 0], [k |-> "list", v |-> 1]}

InitAI ==
    /\ file = NoFile
    /\ las = NoParser
    /\ well_log_files = <<>>
    /\ curve_data = <<>>
    /\ storage = {}
    /\ file2 = NoFile
    /\ las2 = NoParser
    /\ ai_interpretations = <<>>
    /\ now = 0
    /\ temp_files = 0
    /\ environ \in Environs
    /\ service = AIService(environ)
    /\ result = NoCall

InterpretCurves(curves_data, well_metadata, generated) ==
    /\ Idle
    /\ result' = [op |-> "interpret_curves",
                  arg |-> [curves_data |-> curves_data, well_metadata |-> well_metadata],
                  out |-> interpret_curves(service, curves_data, Num(0), Num(9000),
                                           well_metadata, generated)]
    /\ UNCHANGED <<file, las, well_log_files, curve_data, storage, file2, las2, appvars>>

ChatAboutData(well_data, conversation_history, generated) ==
    /\ Idle
    /\ result' = [op |-> "chat_about_data",
                  arg |-> [well_data |-> well_data,
                           conversation_history |-> conversation_history],
                  out |-> chat_about_data(service, "message", well_data,
                                          conversation_history, generated)]
    /\ UNCHANGED <<file, las, well_log_files, curve_data, storage, file2, las2, appvars>>

NextAI ==
    \/ \E c \in CurvesDataArgs, m \in MetadataArgs, g \in BOOLEAN : InterpretCurves(c, m, g)
    \/ \E w \in WellDataArgs, h \in HistoryArgs, g \in BOOLEAN : ChatAboutData(w, h, g)
    \/ Return

SpecAI == InitAI /\ [][NextAI]_vars

(***************************************************************************)
(* The requests of the application: uploads under two names with the       *)
(* failures of the file system, the uploads folder and the database,       *)
(* interpretations, deletions, and the clock.  Requests are served one at  *)
(* a time.                                                                 *)
(***************************************************************************)
\* a file in feet with two rows, a file whose depth unit lasio does not
\* know, and a file whose fields do not fill whole rows
AppFiles ==
    { [ null |-> -999, strt |-> Num(381), depth_unit |-> "FT", curves |-> <<DEPT, GR>>,
        data |-> <<<<Num(381), Num(10)>>, <<Num(762), Num(20)>>>> ],
      [ null |-> -999, strt |-> Num(381), depth_unit |-> "", curves |-> <<DEPT, GR>>,
        data |-> <<<<Num(381), Num(10)>>>> ],
      [ null |-> -999, strt |-> Num(381), depth_unit |-> "FT", curves |-> <<DEPT, GR>>,
        data |-> <<<<Num(381), Num(10)>>, <<Num(762)>>>> ] }

AppEnvirons == { env \in Environs : env.GEMINI_API_KEY \in {None, Text("key")} /\ env.genai_ok }

InitApp ==
    /\ file \in AppFiles
    /\ las \in {LASParser(file, b) : b \in LasioBuilds}
    /\ well_log_files = <<>>
    /\ curve_data = <<>>
    /\ storage = {}
    /\ file2 = NoFile
    /\ las2 = NoParser
    /\ ai_interpretations = <<>>
    /\ now = 0
    /\ temp_files = 0
    /\ environ \in AppEnvirons
    /\ service = AIService(environ)
    /\ result = NoCall

\* time passes
Tick ==
    /\ Idle
    /\ now < MaxClock
    /\ now' = now + 1
    /\ UNCHANGED <<file, las, well_log_files, curve_data, result, storage, file2, las2,
                   ai_interpretations, temp_files, service, environ>>

\* WellLogFile.query.get(file_id): the rows with that primary key
FileRows(file_id) == SelectSeq(well_log_files, LAMBDA f : f.id = file_id)

\* CurveData.query.filter_by(file_id=..., curve_name=...).first()
CurveRows(file_id, curve_name) ==
    SelectSeq(curve_data, LAMBDA c : c.file_id = file_id /\ c.curve_name = curve_name)

\* the loop "for curve_name in curve_names" from position i on
RECURSIVE SummariseLoop(_, _, _, _, _, _)
SummariseLoop(file_id, curve_names, start_depth, end_depth, i, curves_data) ==
    IF i > Len(curve_names) THEN curves_data
    ELSE LET curve == CurveRows(file_id, curve_names[i])
         IN  IF curve /= <<>>
               THEN SummariseLoop(file_id, curve_names, start_depth, end_depth, i + 1,
                        [n \in DOMAIN curves_data \cup {curve_names[i]} |->
                            IF n = curve_names[i]
                              THEN CurveSummary(curve[1], start_depth, end_depth)
                            ELSE curves_data[n]])
             ELSE SummariseLoop(file_id, curve_names, start_depth, end_depth, i + 1,
                                curves_data)

\* an interpret that does not look whether any requested curve was found
InterpretUnchecked(file_id, curve_names, start_depth, end_depth, generated, db_ok) ==
    /\ Idle
    /\ LET curves_data == SummariseLoop(file_id, curve_names, start_depth, end_depth,
                                        1, EmptyMap)
           ai_service == AIService(environ)
       IN  IF curve_names = <<>>
             THEN /\ result' = [op |-> "interpret", out |-> 400]
                  /\ UNCHANGED ai_interpretations
           ELSE IF FileRows(file_id) = <<>>
             THEN /\ result' = [op |-> "interpret", out |-> 404]
                  /\ UNCHANGED ai_interpretations
           ELSE LET well_metadata == [ k |-> "dict", well_name |-> "",
                                       depth_unit |-> FileRows(file_id)[1].depth_unit ]
                    interpretation_text ==
                        interpret_curves(ai_service, curves_data, start_depth, end_depth,
                                         well_metadata, generated)
                IN  IF interpretation_text.raised \/ ~db_ok
                      THEN /\ result' = [op |-> "interpret", out |-> 500]
                           /\ UNCHANGED ai_interpretations
                    ELSE /\ ai_interpretations' = Append(ai_interpretations,
                                [ id |-> MaxId(ai_interpretations) + 1,
                                  file_id |-> file_id,
                                  curves_analyzed |-> curve_names,
                                  interpretation |-> interpretation_text.text ])
                         /\ result' = [op |-> "interpret", out |-> 200]
    /\ UNCHANGED <<file, las, well_log_files, curve_data, storage, file2, las2,
                   now, temp_files, service, environ>>

\* POST /interpret.  generated tells whether the model call succeeds, db_ok
\* whether the commit does.
Interpret(file_id, curve_names, start_depth, end_depth, generated, db_ok) ==
    /\ Idle
    /\ LET curves_data == SummariseLoop(file_id, curve_names, start_depth, end_depth,
                                        1, EmptyMap)
           ai_service == AIService(environ)
       IN  IF curve_names = <<>>
             THEN /\ result' = [op |-> "interpret", out |-> 400]
                  /\ UNCHANGED ai_interpretations
           ELSE IF FileRows(file_id) = <<>>
             THEN /\ result' = [op |-> "interpret", out |-> 404]
                  /\ UNCHANGED ai_interpretations
           ELSE IF curves_data = EmptyMap
             THEN /\ result' = [op |-> "interpret", out |-> 404]
                  /\ UNCHANGED ai_interpretations
           ELSE LET well_metadata == [ k |-> "dict", well_name |-> "",
                                       depth_unit |-> FileRows(file_id)[1].depth_unit ]
                    interpretation_text ==
                        interpret_curves(ai_service, curves_data, start_depth, end_depth,
                                         well_metadata, generated)
                IN  IF interpretation_text.raised \/ ~db_ok
                      THEN /\ result' = [op |-> "interpret", out |-> 500]
                           /\ UNCHANGED ai_interpretations
                    ELSE /\ ai_interpretations' = Append(ai_interpretations,
                                [ id |-> MaxId(ai_interpretations) + 1,
                                  file_id |-> file_id,
                                  curves_analyzed |-> curve_names,
                                  interpretation |-> interpretation_text.text ])
                         /\ result' = [op |-> "interpret", out |-> 200]
    /\ UNCHANGED <<file, las, well_log_files, curve_data, storage, file2, las2,
                   now, temp_files, service, environ>>

\* LocalStorageService.delete_file: os.remove of the path of the key when it
\* exists
Remove(store, key) == store \ {key}

\* a deletion that leaves the interpretations of the file behind
DeleteFileNoCascade(file_id, removed, db_ok) ==
    /\ Idle
    /\ IF FileRows(file_id) = <<>>
         THEN /\ result' = [op |-> "delete", arg |-> file_id, out |-> 404, removed |-> FALSE]
              /\ UNCHANGED <<well_log_files, curve_data, ai_interpretations, storage>>
       ELSE /\ storage' = IF removed THEN Remove(storage, FileRows(file_id)[1].s3_key)
                          ELSE storage
            /\ IF db_ok
                 THEN /\ well_log_files' = SelectSeq(well_log_files, LAMBDA f : f.id /= file_id)
                      /\ curve_data' = SelectSeq(curve_data, LAMBDA c : c.file_id /= file_id)
                      /\ UNCHANGED ai_interpretations
                      /\ result' = [op |-> "delete", arg |-> file_id, out |-> 200,
                                    removed |-> removed]
               ELSE /\ result' = [op |-> "delete", arg |-> file_id, out |-> 500,
                                  removed |-> removed]
                    /\ UNCHANGED <<well_log_files, curve_data, ai_interpretations>>
    /\ UNCHANGED <<file, las, file2, las2, now, temp_files, service, environ>>

\* DELETE /file/<file_id>.  removed tells whether os.remove succeeds (its
\* exception is caught inside delete_file and the answer of delete_file is
\* not looked at), db_ok whether the commit does.  db.session.delete cascades
\* to the curves and the interpretations.  The result keeps removed next to
\* the status code.
DeleteFile(file_id, removed, db_ok) ==
    /\ Idle
    /\ IF FileRows(file_id) = <<>>
         THEN /\ result' = [op |-> "delete", arg |-> file_id, out |-> 404, removed |-> FALSE]
              /\ UNCHANGED <<well_log_files, curve_data, ai_interpretations, storage>>
       ELSE /\ storage' = IF removed THEN Remove(storage, FileRows(file_id)[1].s3_key)
                          ELSE storage
            /\ IF db_ok
                 THEN /\ well_log_files' = SelectSeq(well_log_files, LAMBDA f : f.id /= file_id)
                      /\ curve_data' = SelectSeq(curve_data, LAMBDA c : c.file_id /= file_id)
                      /\ ai_interpretations' =
                             SelectSeq(ai_interpretations, LAMBDA a : a.file_id /= file_id)
                      /\ result' = [op |-> "delete", arg |-> file_id, out |-> 200,
                                    removed |-> removed]
               ELSE /\ result' = [op |-> "delete", arg |-> file_id, out |-> 500,
                                  removed |-> removed]
                    /\ UNCHANGED <<well_log_files, curve_data, ai_interpretations>>
    /\ UNCHANGED <<file, las, file2, las2, now, temp_files, service, environ>>

CurveNameArgs == {<<>>, <<"GR">>, <<"LITH">>}

NextApp ==
    \/ (Len(well_log_files) < MaxFiles /\ UploadFile("a.las", NoFault))
    \/ \E id \in 1..MaxFiles, names \in CurveNameArgs, g \in BOOLEAN, d \in BOOLEAN :
           Len(ai_interpretations) < MaxInterpretations
               /\ Interpret(id, names, Num(0), Num(9000), g, d)
    \/ \E id \in 1..MaxFiles, r \in BOOLEAN, d \in BOOLEAN : DeleteFile(id, r, d)
    \/ Return

SpecApp == InitApp /\ [][NextApp]_vars

\* the uploads folder: uploads under two names with every failure, deletions
\* and the clock
NextStore ==
    \/ Tick
    \/ \E n \in Filenames, io \in Faults :
           Len(well_log_files) < MaxFiles /\ UploadFile(n, io)
    \/ \E id \in 1..MaxFiles, r \in BOOLEAN, d \in BOOLEAN : DeleteFile(id, r, d)
    \/ Return

SpecStore == InitApp /\ [][NextStore]_vars

(***************************************************************************)
(* What the properties below say about the source rows of the file.        *)
(***************************************************************************)
\* the names declared in the curve section, and the column of a declared name
Declared(name) == \E c \in 1..Len(file.curves) : file.curves[c].mnemonic = name

SourceColumn(name) == CHOOSE c \in 1..Len(file.curves) : file.curves[c].mnemonic = name

\* a cell of the data section holds a measurement
Present(cell) == cell.k = "num" /\ cell.v /= file.null

BothPresent(name, r) ==
    Present(file.data[r][1]) /\ Present(file.data[r][SourceColumn(name)])

\* the depth the parser reports for row r: feet, converted when the file is in metres
SourceDepth(r) ==
    IF file.depth_unit = "M" THEN (file.data[r][1].v * 10000) \div 3048
    ELSE file.data[r][1].v

SourceValue(name, r) == file.data[r][SourceColumn(name)].v

FromOneRow(name, d, v) ==
    \E r \in 1..Len(file.data) :
        /\ file.data[r][1].k = "num"
        /\ file.data[r][SourceColumn(name)].k = "num"
        /\ SourceDepth(r) = d
        /\ SourceValue(name, r) = v

Aligned(name, depths, values) ==
    /\ Len(depths) = Len(values)
    /\ \A i \in 1..Len(depths) : FromOneRow(name, depths[i], values[i])

\* C1: every series returned by get_curve_data, get_all_curves_data and
\* CurveData.get_data has as many depths as values, and each pair
\* (depths[i], values[i]) is the depth and the value of one source row.
C1_Alignment ==
    /\ (result.op = "get_curve_data" /\ result.out.ok)
          => Aligned(result.arg, result.out.depths, result.out.values)
    /\ result.op = "get_all_curves_data"
          => \A n \in DOMAIN result.out.data :
                Aligned(n, result.out.data[n].depths, result.out.data[n].values)
    /\ result.op = "get_data"
          => Aligned(curve_data[result.arg.row].curve_name,
                     result.out.depths, result.out.values)

C1_Witness ==
    /\ result.op = "get_data"
    /\ result.arg.start_depth /= None
    /\ Len(file.data) = 2
    /\ Len(json_loads(curve_data[result.arg.row].depths)) = 2
    /\ Len(result.out.depths) = 1

\* the rows of the file that hold both a depth and a value of the curve, in file order
KeptRows(name) ==
    SelectSeq([r \in 1..Len(file.data) |-> r], LAMBDA r : BothPresent(name, r))

\* C2: get_curve_data returns exactly the rows in which both the depth and
\* the curve value are present: no such row is dropped, and no row with a
\* missing depth or a missing value is kept.
C2_IncludedIffBothPresent ==
    (result.op = "get_curve_data" /\ result.out.ok) =>
        LET kept == KeptRows(result.arg)
        IN  /\ result.out.depths = [i \in 1..Len(kept) |-> SourceDepth(kept[i])]
            /\ result.out.values = [i \in 1..Len(kept) |-> SourceValue(result.arg, kept[i])]

C2_Witness ==
    /\ result.op = "get_curve_data"
    /\ result.arg = "GR"
    /\ result.out.ok
    /\ Len(file.data) = 2
    /\ ~Present(file.data[1][1])
    /\ Present(file.data[2][1])
    /\ Present(file.data[2][2])
    /\ Len(result.out.depths) = 1

Extracted(row) == get_curve_data(las, row.curve_name)

\* the positions of a depth list that lie in [lo, hi], in order
InRange(depths, lo, hi) ==
    SelectSeq([i \in 1..Len(depths) |-> i], LAMBDA i : lo <= depths[i] /\ depths[i] <= hi)

Pick(xs, idx) == [i \in 1..Len(idx) |-> xs[idx[i]]]

\* C4: with both bounds given, in either order, get_data returns exactly the
\* stored samples with min(start, end) <= depth <= max(start, end), in order.
C4_DirectionAgnosticFilter ==
    (/\ result.op = "get_data"
     /\ result.arg.start_depth /= None
     /\ result.arg.end_depth /= None) =>
        LET s == result.arg.start_depth.v
            e == result.arg.end_depth.v
            stored == Extracted(curve_data[result.arg.row])
            idx == InRange(stored.depths, IF s <= e THEN s ELSE e, IF s <= e THEN e ELSE s)
        IN  /\ result.out.depths = Pick(stored.depths, idx)
            /\ result.out.values = Pick(stored.values, idx)

\* the positions of a depth list at or above lo / at or below hi, in order
AtLeast(depths, lo) ==
    SelectSeq([i \in 1..Len(depths) |-> i], LAMBDA i : depths[i] >= lo)

AtMost(depths, hi) ==
    SelectSeq([i \in 1..Len(depths) |-> i], LAMBDA i : depths[i] <= hi)

\* C5: get_data without bounds returns the whole stored series; with only
\* start_depth exactly the samples with depth >= start_depth; with only
\* end_depth exactly the samples with depth <= end_depth.
C5_OptionalBounds ==
    result.op = "get_data" =>
        LET s == result.arg.start_depth
            e == result.arg.end_depth
            stored == Extracted(curve_data[result.arg.row])
        IN  /\ (s = None /\ e = None) =>
                  /\ result.out.depths = stored.depths
                  /\ result.out.values = stored.values
            /\ (s /= None /\ e = None) =>
                  /\ result.out.depths = Pick(stored.depths, AtLeast(stored.depths, s.v))
                  /\ result.out.values = Pick(stored.values, AtLeast(stored.depths, s.v))
            /\ (s = None /\ e /= None) =>
                  /\ result.out.depths = Pick(stored.depths, AtMost(stored.depths, e.v))
                  /\ result.out.values = Pick(stored.values, AtMost(stored.depths, e.v))

C5_Witness ==
    /\ result.op = "get_data"
    /\ result.arg.start_depth /= None
    /\ result.arg.end_depth = None
    /\ Len(Extracted(curve_data[result.arg.row]).depths) = 2
    /\ Len(result.out.depths) = 1
    /\ result.out.depths[1] = result.arg.start_depth.v

\* C6: the series of get_curve_data is an order-preserving subsequence of
\* the rows of the data section: sample i comes from a row that lies before
\* the row of sample i + 1.
C6_RowOrderKept ==
    (result.op = "get_curve_data" /\ result.out.ok) =>
        /\ Len(result.out.depths) = Len(result.out.values)
        /\ \E f \in [1..Len(result.out.depths) -> 1..Len(file.data)] :
              /\ \A i \in 1..Len(result.out.depths) :
                    /\ file.data[f[i]][1].k = "num"
                    /\ SourceDepth(f[i]) = result.out.depths[i]
                    /\ file.data[f[i]][SourceColumn(result.arg)].k = "num"
                    /\ SourceValue(result.arg, f[i]) = result.out.values[i]
              /\ \A i \in 1..Len(result.out.depths), j \in 1..Len(result.out.depths) :
                    i < j => f[i] < f[j]

C6_Witness ==
    /\ result.op = "get_curve_data"
    /\ result.arg = "GR"
    /\ result.out.ok
    /\ Len(result.out.depths) = 2
    /\ result.out.depths[1] > result.out.depths[2]
    /\ result.out.values[1] /= result.out.values[2]

RECURSIVE Total(_, _)
Total(xs, n) == IF n = 0 THEN 0 ELSE xs[n] + Total(xs, n - 1)

\* C7: over a non-empty extracted values list, get_statistics returns the
\* smallest value as min, the largest as max, sum/N as mean and the
\* population standard deviation as std: std^2 = (N * sum(x^2) - sum(x)^2) / N^2.
C7_Statistics ==
    (/\ result.op = "get_statistics"
     /\ get_curve_data(las, result.arg).ok
     /\ get_curve_data(las, result.arg).values /= <<>>) =>
        LET xs == get_curve_data(las, result.arg).values
            N == Len(xs)
            S == Total(xs, N)
            Q == Total([i \in 1..N |-> xs[i] * xs[i]], N)
            st == result.out.stats
        IN  /\ result.out.ok
            /\ st.min.k = "float" /\ st.min.den = 1
            /\ \E i \in 1..N : xs[i] = st.min.num
            /\ \A i \in 1..N : st.min.num <= xs[i]
            /\ st.max.k = "float" /\ st.max.den = 1
            /\ \E i \in 1..N : xs[i] = st.max.num
            /\ \A i \in 1..N : st.max.num >= xs[i]
            /\ st.mean.k = "float" /\ st.mean.den > 0
            /\ st.mean.num * N = S * st.mean.den
            /\ st.std.k = "float" /\ st.std.den > 0
            /\ st.std.num * (N * N) = (N * Q - S * S) * st.std.den

C7_Witness ==
    /\ result.op = "get_statistics"
    /\ result.out.ok
    /\ Len(get_curve_data(las, result.arg).values) = 2
    /\ result.out.stats.min.num < result.out.stats.max.num
    /\ result.out.stats.std.num > 0

\* C8: for a declared curve whose extracted values list is empty,
\* get_statistics returns min, max, mean and std all None and does not raise.
C8_EmptySeriesStatistics ==
    (/\ result.op = "get_statistics"
     /\ Declared(result.arg)
     /\ get_curve_data(las, result.arg).ok
     /\ get_curve_data(las, result.arg).values = <<>>) =>
        /\ result.out.ok
        /\ result.out.stats.min = NoneFloat
        /\ result.out.stats.max = NoneFloat
        /\ result.out.stats.mean = NoneFloat
        /\ result.out.stats.std = NoneFloat

C8_Witness ==
    /\ result.op = "get_statistics"
    /\ result.arg = "GR"
    /\ Len(file.data) = 2
    /\ get_curve_data(las, "GR").ok
    /\ get_curve_data(las, "GR").values = <<>>
    /\ result.out.ok

\* the curves of the curve section other than the depth curve
DeclaredCurves ==
    {file.curves[c].mnemonic : c \in 1..Len(file.curves)} \ {"DEPT", "DEPTH"}

InSeq(x, xs) == \E i \in 1..Len(xs) : xs[i] = x

\* C9: get_all_curves_data always returns; a declared curve whose extraction
\* fails is left out of the mapping and named in a warning, and every declared
\* curve whose extraction succeeds is in the mapping with the series
\* get_curve_data returns for it.
C9_BatchPartialSuccess ==
    result.op = "get_all_curves_data" =>
        /\ DOMAIN result.out.data \subseteq DeclaredCurves
        /\ \A n \in DeclaredCurves :
              IF get_curve_data(las, n).ok
                THEN /\ n \in DOMAIN result.out.data
                     /\ result.out.data[n].depths = get_curve_data(las, n).depths
                     /\ result.out.data[n].values = get_curve_data(las, n).values
                     /\ ~InSeq(n, result.out.warnings)
                ELSE /\ n \notin DOMAIN result.out.data
                     /\ InSeq(n, result.out.warnings)

C9_Witness ==
    /\ result.op = "get_all_curves_data"
    /\ DOMAIN result.out.data = {"GR"}
    /\ result.out.warnings = <<"LITH">>
    /\ Len(result.out.data["GR"].depths) = 2

\* C10 as stated: a single-curve request for a mnemonic that is not in the
\* curve section fails with a curve-not-found error type and returns nothing.
C10_TypedCurveNotFound ==
    (result.op \in {"get_curve_data", "get_statistics"} /\ ~Declared(result.arg)) =>
        /\ ~result.out.ok
        /\ result.out.exc = "CurveNotFoundError"

\* C10 as amended: a single-curve request for a mnemonic that is not in the
\* curve section fails with a ValueError, the error type of every extraction
\* failure, and returns neither a series nor statistics.
C10_AbsentCurveRaisesValueError ==
    (result.op \in {"get_curve_data", "get_statistics"} /\ ~Declared(result.arg)) =>
        /\ ~result.out.ok
        /\ result.out.exc = "ValueError"

C10_Witness ==
    /\ result.op = "get_statistics"
    /\ result.arg = "LITH"
    /\ ~Declared("LITH")
    /\ Len(file.data) = 2
    /\ ~result.out.ok
    /\ result.out.cause = "KeyError"

(***************************************************************************)
(* C11                                                                     *)
(***************************************************************************)
\* the declared mnemonics that a requested name equals when letter case is
\* ignored
CaseMatches(name) ==
    { file.curves[c].mnemonic : c \in { b \in 1..Len(file.curves) :
                                          Upper(file.curves[b].mnemonic) = Upper(name) } }

\* C11: get_curve_data resolves the requested name by a case-insensitive
\* exact match: a request under any letter-casing of a declared mnemonic
\* returns what the request under the declared casing returns.
C11_CaseInsensitiveLookup ==
    result.op = "get_curve_data" =>
        \A m \in CaseMatches(result.arg) : result.out = get_curve_data(las, m)

(***************************************************************************)
(* C12, C13                                                                *)
(***************************************************************************)
\* a data line of the file has one field per declared curve
ParsableLine(r) == Len(file.data[r]) = Len(file.curves)

ParsableLines == { r \in 1..Len(file.data) : ParsableLine(r) }

\* C12: on a file whose data section has no parsable row the construction
\* of the parser fails, and no metadata, curve series or stored upload is
\* produced for the file.
C12_ZeroRowsIsFormatError ==
    ParsableLines = {} =>
        /\ ~Constructed(las)
        /\ result.op \in {"none", "upload"}
        /\ result.op = "upload" => result.out = 400

\* the data section without the lines that are not parsable
SurvivingLines == SelectSeq(file.data, LAMBDA line : Len(line) = Len(file.curves))

\* C13: a data line whose field count differs from the number of declared
\* curves is skipped and does not make the parse fail as long as another
\* line parses: the parser is constructed and holds the surviving rows.
C13_MalformedRowSkipped ==
    ParsableLines /= {} =>
        /\ Constructed(las)
        /\ \E b \in LasioBuilds : las = LasioRead([file EXCEPT !.data = SurvivingLines], b)

(***************************************************************************)
(* C14, C15                                                                *)
(***************************************************************************)
\* the index/depth column of the file: the column called DEPT or DEPTH when
\* there is one, the first column otherwise
DepthColumns == { c \in 1..Len(file.curves) : Upper(file.curves[c].mnemonic) \in {"DEPT", "DEPTH"} }

IndexColumn == IF DepthColumns = {} THEN 1 ELSE CHOOSE c \in DepthColumns : \A b \in DepthColumns : c <= b

RECURSIVE CurvesExcept(_, _)
CurvesExcept(c, skip) ==
    IF c > Len(file.curves) THEN <<>>
    ELSE IF c = skip THEN CurvesExcept(c + 1, skip)
    ELSE <<[name |-> file.curves[c].mnemonic, unit |-> file.curves[c].unit,
            description |-> file.curves[c].descr]>> \o CurvesExcept(c + 1, skip)

\* C14: get_available_curves lists every declared curve but the index/depth
\* column, once and in declaration order, with its unit and description, and
\* no CurveData row is stored for the index/depth column.
C14_IndexNeverListed ==
    /\ result.op = "get_available_curves" => result.out = CurvesExcept(1, IndexColumn)
    /\ \A j \in 1..Len(curve_data) :
           curve_data[j].curve_name /= file.curves[IndexColumn].mnemonic

\* C15: the depths returned by get_curve_data are values of the file's
\* index/depth column as the file gives them, unconverted, and so in the unit
\* that get_metadata reports as depth_unit.
C15_DepthsUnconverted ==
    ( /\ result.op = "get_curve_data"
      /\ result.out.ok
      /\ ParsableLines = 1..Len(file.data) ) =>
        \A i \in 1..Len(result.out.depths) :
            \E r \in 1..Len(file.data) :
                result.out.depths[i] = file.data[r][IndexColumn].v

(***************************************************************************)
(* C17                                                                     *)
(***************************************************************************)
\* what reading the content of the file gives: a document or a failure
FreshParses == { LASParser(file, b) : b \in LasioBuilds }

\* C17: the calls of the parser leave the parsed document as the read of
\* the file gave it, and after any sequence of calls each call returns what
\* it returns on a fresh parse of the same content; a file whose read fails
\* fails again.
C17_PureDeterministic ==
    /\ las \in FreshParses
    /\ \E fresh \in FreshParses :
         /\ Constructed(fresh) <=> Constructed(las)
         /\ result.op = "get_metadata" => result.out = get_metadata(fresh)
         /\ result.op = "get_available_curves" => result.out = get_available_curves(fresh)
         /\ result.op = "get_curve_data" => result.out = get_curve_data(fresh, result.arg)
         /\ result.op = "get_all_curves_data" => result.out = get_all_curves_data(fresh)
         /\ result.op = "get_statistics" => result.out = get_statistics(fresh, result.arg)

\* a call of get_curve_data on a file in metres that returns a sample, made
\* after an upload that has itself called every operation of the parser
C17_Witness ==
    /\ result.op = "get_curve_data"
    /\ result.out.ok
    /\ result.out.depths /= <<>>
    /\ file.depth_unit = "M"
    /\ Len(well_log_files) = 1

(***************************************************************************)
(* C18                                                                     *)
(***************************************************************************)
\* the call under way was made on the second parser
OnSecond == "parser" \in DOMAIN result

\* C18: with the calls of two parsers interleaved, each parser holds the
\* document that the read of its own file gives and each call returns what
\* it returns on a parser that is alone with that file.
C18_InstancesIndependent ==
    \E b \in LasioBuilds :
        LET alone1 == LASParser(file, b)
            alone2 == IF file2 = NoFile THEN NoParser ELSE LASParser(file2, b)
        IN  /\ las = alone1
            /\ las2 = alone2
            /\ (result.op = "get_curve_data" /\ ~OnSecond) =>
                   result.out = get_curve_data(alone1, result.arg)
            /\ (result.op = "get_all_curves_data" /\ ~OnSecond) =>
                   result.out = get_all_curves_data(alone1)
            /\ (result.op = "get_curve_data" /\ OnSecond) =>
                   result.out = get_curve_data(alone2, result.arg)
            /\ (result.op = "get_all_curves_data" /\ OnSecond) =>
                   result.out = get_all_curves_data(alone2)

\* a call on the first parser that returns a sample, made after the second
\* parser was constructed on a file with other rows
C18_Witness ==
    /\ result.op = "get_curve_data"
    /\ ~OnSecond
    /\ result.out.ok
    /\ result.out.depths /= <<>>
    /\ Constructed(las2)
    /\ file2.data /= file.data

(***************************************************************************)
(* C19, C20                                                                *)
(***************************************************************************)
\* the parsing step of upload_file fails on the file: the read of the file
\* raises, or its STRT is not a number
ParseFails == ~Constructed(las) \/ file.strt.k /= "num"

\* C19: when the parsing of the uploaded file fails, upload_file answers 400
\* and keeps nothing of the upload: no copy in storage, no WellLogFile row
\* and no CurveData row.
C19_FailedParseKeepsNothing ==
    ParseFails =>
        /\ result.op = "upload" => result.out = 400
        /\ storage = {}
        /\ well_log_files = <<>>
        /\ curve_data = <<>>

\* an upload answered 400 for a file of two data lines that lasio cannot read
C19_Witness ==
    /\ result.op = "upload"
    /\ result.out = 400
    /\ ~Constructed(las)
    /\ Len(file.data) = 2

\* the lists a stored row holds, decoded from its text columns
StoredDepths(row) == json_loads(row.depths)

StoredValues(row) == json_loads(row.values)

\* a stored statistic is the number x
IsNumber(stat, x) == stat.k = "float" /\ stat.num = x * stat.den

\* C20: after a successful upload every CurveData row holds the series that the batch extraction
\* returned for its curve, and its min_value, max_value and mean_value are
\* the minimum, maximum and mean of the values it stores, or None when it
\* stores no value.
C20_RowsHoldParserOutput ==
    (result.op = "upload" /\ result.out = 201) =>
    \A j \in 1..Len(curve_data) :
        LET row == curve_data[j]
            batch == get_all_curves_data(las).data
            vs == StoredValues(row)
        IN  /\ row.curve_name \in DOMAIN batch
            /\ StoredDepths(row) = batch[row.curve_name].depths
            /\ vs = batch[row.curve_name].values
            /\ vs = <<>> =>
                   /\ row.min_value = NoneFloat
                   /\ row.max_value = NoneFloat
                   /\ row.mean_value = NoneFloat
            /\ vs /= <<>> =>
                   /\ \E i \in 1..Len(vs) : IsNumber(row.min_value, vs[i])
                   /\ \A i \in 1..Len(vs) : row.min_value.num <= vs[i] * row.min_value.den
                   /\ \E i \in 1..Len(vs) : IsNumber(row.max_value, vs[i])
                   /\ \A i \in 1..Len(vs) : row.max_value.num >= vs[i] * row.max_value.den
                   /\ row.mean_value.k = "float"
                   /\ row.mean_value.num * Len(vs) = Total(vs, Len(vs)) * row.mean_value.den

\* an upload that stored two rows with different values, one of them with
\* two samples
C20_Witness ==
    /\ result.op = "upload"
    /\ result.out = 201
    /\ Len(curve_data) = 2
    /\ Len(StoredValues(curve_data[1])) = 2
    /\ StoredValues(curve_data[1]) /= StoredValues(curve_data[2])
    /\ StoredValues(curve_data[1])[1] /= StoredValues(curve_data[1])[2]

(***************************************************************************)
(* C21                                                                     *)
(***************************************************************************)
\* the depth-filtered series of the row the summary was asked for
Filtered == get_data(curve_data[result.arg.row], result.arg.start_depth, result.arg.end_depth)

\* idx are strictly increasing 0-based positions of a list of n entries, the
\* i-th of count being floor(i * n / count)
EvenlySpaced(idx, n) ==
    LET count == Len(idx)
    IN  /\ \A i \in 1..count :
              /\ idx[i] >= 0
              /\ idx[i] < n
              /\ count * idx[i] <= (i - 1) * n
              /\ (i - 1) * n < count * (idx[i] + 1)
        /\ \A i \in 1..(count - 1) : idx[i] < idx[i + 1]

\* C21: the sample of a requested curve holds min(5, N) pairs of the
\* depth-filtered series of length N, taken at evenly spaced, strictly
\* increasing, in-range positions, each pair from one position of both
\* lists; for N = 0 the sample is empty and the statistics are None.
C21_EvenlySpacedSample ==
    result.op = "curve_summary" =>
        LET N == Len(Filtered.values)
            sample == result.out.sample_values
        IN  /\ Len(sample) = Min2(5, N)
            /\ \E idx \in [1..Len(sample) -> 0..MaxSeries] :
                   /\ EvenlySpaced(idx, N)
                   /\ \A i \in 1..Len(sample) :
                          /\ sample[i].depth = Fmt2(Filtered.depths[idx[i] + 1])
                          /\ sample[i].value = Filtered.values[idx[i] + 1]
            /\ N = 0 =>
                   /\ sample = <<>>
                   /\ result.out.min_value = NoneFloat
                   /\ result.out.max_value = NoneFloat
                   /\ result.out.mean_value = NoneFloat

\* a summary of a filtered series of seven samples
C21_Witness ==
    /\ result.op = "curve_summary"
    /\ Len(Filtered.values) = 7
    /\ Len(result.out.sample_values) = 5
    /\ result.out.sample_values[5].depth = 60

(***************************************************************************)
(* C24, C25                                                                *)
(***************************************************************************)
\* C24: interpret_curves returns a text and never raises, for every input
\* its signature allows, well_metadata left out (None) included; a failure
\* of the model call is returned as an error text.
C24_InterpretAlwaysReturns ==
    result.op = "interpret_curves" =>
        /\ ~result.out.raised
        /\ result.out.text /= ""

\* the AI features are disabled: the key is unset or blank, or configuring
\* the client fails
Disabled ==
    \/ environ.GEMINI_API_KEY.k = "none"
    \/ environ.GEMINI_API_KEY.v \in {"", "  "}
    \/ ~environ.genai_ok

\* C25: the AI features are disabled exactly when GEMINI_API_KEY is unset or
\* blank or configuring the client fails; while disabled both calls return
\* their fixed 'unavailable' text without a call of the model, and while
\* enabled each call invokes the model exactly once.
C25_DisabledExactlyWithoutKey ==
    /\ service.enabled <=> ~Disabled
    /\ (result.op = "interpret_curves" /\ Disabled) =>
           /\ ~result.out.raised
           /\ result.out.text = "AI Interpretation Service is currently unavailable."
           /\ result.out.model_calls = 0
    /\ (result.op = "chat_about_data" /\ Disabled) =>
           /\ ~result.out.raised
           /\ result.out.text = "Chatbot service is currently unavailable."
           /\ result.out.model_calls = 0
    /\ (result.op \in {"interpret_curves", "chat_about_data"} /\ ~Disabled) =>
           result.out.model_calls = 1


(***************************************************************************)
(* Deleting a file.                                                        *)
(***************************************************************************)
\* C22: DELETE /file/<id> answered 200 leaves no WellLogFile row with that
\* id and no CurveData or AIInterpretation row with that file_id; the stored
\* file under its s3_key is gone whenever os.remove succeeded, and a failed
\* removal does not keep the rows; for an id without a row the answer is 404
\* and rows and stored files stay as they were.
C22_DeleteRemovesEverything ==
    [][ (Idle /\ result'.op = "delete") =>
          IF FileRows(result'.arg) = <<>>
            THEN /\ result'.out = 404
                 /\ UNCHANGED <<well_log_files, curve_data, ai_interpretations, storage>>
          ELSE /\ result'.out = 200 =>
                    /\ \A i \in DOMAIN well_log_files' : well_log_files'[i].id /= result'.arg
                    /\ \A i \in DOMAIN curve_data' : curve_data'[i].file_id /= result'.arg
                    /\ \A i \in DOMAIN ai_interpretations' :
                           ai_interpretations'[i].file_id /= result'.arg
               /\ result'.removed => FileRows(result'.arg)[1].s3_key \notin storage'
               /\ result'.out \in {200, 500} ]_vars

\* the only file, with its curve and an interpretation, deleted while
\* os.remove failed: the rows are gone and the stored file is still there
C22_Witness ==
    /\ result.op = "delete"
    /\ result.out = 200
    /\ ~result.removed
    /\ well_log_files = <<>>
    /\ curve_data = <<>>
    /\ ai_interpretations = <<>>
    /\ storage /= {}


(***************************************************************************)
(* The keys of the uploads folder.                                         *)
(***************************************************************************)
\* C23: the storage keys of successful uploads are distinct, two uploads of
\* the same filename within one second included: no two WellLogFile rows
\* hold the same s3_key, so that deleting one of them cannot remove the
\* stored file of the other.
C23_StorageKeysUnique ==
    \A i, j \in DOMAIN well_log_files :
        i /= j => well_log_files[i].s3_key /= well_log_files[j].s3_key


(***************************************************************************)
(* The temporary file and the failures of an upload.                       *)
(***************************************************************************)
\* C26: every upload request that answers after its temporary file was
\* created has removed that file, and removed it once: no temporary file is
\* left on disk and each answer of upload_file follows exactly one unlink.
C26_TempFileRemovedOnce ==
    /\ temp_files = 0
    /\ result.op = "upload" => result.unlinks = 1

\* C27: an upload request answered 400 or 500 leaves the WellLogFile rows,
\* the CurveData rows and the files of the uploads folder as they were
\* before the request.
C27_FailedUploadChangesNothing ==
    [][ (Idle /\ result'.op = "upload" /\ result'.out \in {400, 500}) =>
            UNCHANGED <<well_log_files, curve_data, storage>> ]_vars


(***************************************************************************)
(* The rows of the three tables.                                           *)
(***************************************************************************)
\* C28: after any sequence of upload, interpret and delete requests, failed
\* ones included, every CurveData row and every AIInterpretation row has the
\* file_id of an existing WellLogFile row, and an AIInterpretation row exists
\* only for a file that has a CurveData row for at least one of the curves
\* the interpretation was asked for.
C28_ReferentialIntegrity ==
    /\ \A i \in DOMAIN curve_data : FileRows(curve_data[i].file_id) /= <<>>
    /\ \A i \in DOMAIN ai_interpretations :
           LET a == ai_interpretations[i]
           IN  /\ FileRows(a.file_id) /= <<>>
               /\ \E k \in DOMAIN a.curves_analyzed :
                      CurveRows(a.file_id, a.curves_analyzed[k]) /= <<>>

\* an interpretation just stored for the second of two uploaded files
C28_Witness ==
    /\ result.op = "interpret"
    /\ result.out = 200
    /\ Len(well_log_files) = 2
    /\ Len(ai_interpretations) = 1
    /\ ai_interpretations[1].file_id = 2


(***************************************************************************)
(* The curves a file advertises.                                           *)
(***************************************************************************)
\* C29: after a successful upload the names in available_curves of the new
\* WellLogFile row are exactly the names that have a CurveData row of that
\* file, one row for each name.
C29_AdvertisedCurvesStored ==
    (result.op = "upload" /\ result.out = 201) =>
        LET f == well_log_files[Len(well_log_files)]
        IN  /\ \A k \in DOMAIN f.available_curves :
                   Len(CurveRows(f.id, f.available_curves[k])) = 1
            /\ \A i \in DOMAIN curve_data :
                   curve_data[i].file_id = f.id =>
                       \E k \in DOMAIN f.available_curves :
                           f.available_curves[k] = curve_data[i].curve_name

====
